---------------------------- MODULE Spec2Model ----------------------------
(***************************************************************************)
(* A model of the veldspar2 texture tools:                                 *)
(*                                                                         *)
(*   tools/generate_new_block_textures.py   the 16x16 procedural recipes   *)
(*   tools/texture_forge/generate_batch.py  the batch HTTP client          *)
(*                                                                         *)
(* The recipes are modelled statement by statement.  Three things bound    *)
(* the state space, each an observation window on the program and not a    *)
(* change of it:                                                           *)
(*                                                                         *)
(*   - obsCh, the set of pixel channels (1=R 2=G 3=B 4=A) whose values     *)
(*     are kept; the code treats the channels independently, so a colour   *)
(*     is carried as a function on the observed channels;                  *)
(*   - DOMAIN img, the set of canvas coordinates whose pixels are kept;    *)
(*     a write to any other coordinate still happens and is recorded in    *)
(*     the log `writes`, it only leaves no trace in img;                   *)
(*   - rng.mode: "any" is a random stream that may return any value of     *)
(*     the requested range on every draw (all seeds at once), "lcg" is a   *)
(*     seeded deterministic generator that advances with every draw.       *)
(*                                                                         *)
(* Floats: random() is carried as its integer percentage (every threshold  *)
(* of the code is a multiple of 0.01) and the blend factor t as a          *)
(* fraction tn/td, evaluated exactly.                                      *)
(***************************************************************************)
EXTENDS Integers, Sequences, FiniteSets, TLC

VARIABLES
    recipe,     \* which recipe of the catalog runs
    args,       \* the recipe's arguments (seed, palette, crack_count)
    pc,         \* position in the recipe
    rng,        \* the recipe's random stream (rng = random.Random(seed))
    obsCh,      \* observed channels
    img,        \* the canvas on the observed coordinates (px = img.load())
    hist,       \* per observed coordinate: who wrote it, and the last value issued
    writes,     \* the pixel writes performed by the last step, in order
    i,          \* outer loop counter of the running pass
    x, y,       \* current coordinate (scan position, walk position, blade root)
    cx, cy,     \* anchor of a speckle cluster / moss patch / flower centre
    shape,      \* chosen speckle shape (index), blade lean, or stem kink
    length,     \* length of the running stroke / line / blade
    step,       \* inner loop counter
    line,       \* mossy_rubble_texture's seam line under construction
    seam_lines, \* mossy_rubble_texture's list of generated seam lines
    blades,     \* tall_grass_texture's number of blades
    err,        \* exception raised ("none" when none)
    run,        \* which invocation of the recipe this is (1 or 2)
    first,      \* the canvas the first invocation returned
    c1, c2, tn, td, out,                      \* blend's arguments and result
    textures, files, bi, success, failed,     \* generate_batch.main
    requests, written, outcomes, bpc

recipeVars == <<recipe, args, pc, rng, obsCh, img, hist, writes, i, x, y, cx, cy,
                shape, length, step, line, seam_lines, blades, err, run, first>>
blendVars  == <<c1, c2, tn, td, out>>
batchVars  == <<textures, files, bi, success, failed, requests, written, outcomes, bpc>>
vars       == <<recipeVars, blendVars, batchVars>>
\* What a step of a recipe leaves alone.
others     == <<blendVars, batchVars>>

---------------------------------------------------------------------------
(* Bounds of the model *)

\* Iterations explored of each counted loop under the "any" stream.
MaxIter == 1
\* Points per seam line explored under the "any" stream.
MaxSeamSteps == 2
\* Seeds 0..MaxSeed are explored under the seeded stream.
MaxSeed == 3
\* Entries of the batch client's texture list.
MaxEntries == 3

(* Program constants *)
SIZE == 16

Min2(a, b) == IF a < b THEN a ELSE b
Max2(a, b) == IF a > b THEN a ELSE b

Coords == (0..(SIZE - 1)) \X (0..(SIZE - 1))

---------------------------------------------------------------------------
(* Colour utilities *)

\* def clamp(value, lo=0, hi=255): return max(lo, min(hi, value))
clamp(value, lo, hi) == Max2(lo, Min2(hi, value))

\* int(): truncation toward zero of the quotient n/d, d > 0
Trunc(n, d) == IF n >= 0 THEN n \div d ELSE -((-n) \div d)

\* the interpolation taken from the other end: b + (a - b) * t
blendChSwapped(a, b, tnum, tden) == clamp(Trunc(b * tden + (a - b) * tnum, tden), 0, 255)

\* One channel of blend: clamp(int(a + (b - a) * t)), t = tnum/tden.
blendCh(a, b, tnum, tden) == clamp(Trunc(a * tden + (b - a) * tnum, tden), 0, 255)

\* blend(c1, c2, t) on whatever channels the two colours carry.
blend(col1, col2, tnum, tden) ==
    [c \in DOMAIN col1 |-> blendCh(col1[c], col2[c], tnum, tden)]

---------------------------------------------------------------------------
(* The random stream *)

\* random.Random() with the seed left out: the stream starts from the system's
\* entropy, which the number of the invocation stands for.
RandomUnseeded(seed, nth) == [mode |-> "lcg", s |-> (7919 * nth + 104729) % 65536]

\* rng = random.Random(seed), in the nth invocation of a recipe: the stream is
\* a function of the seed alone.
Random(seed, nth) == [mode |-> "lcg", s |-> (seed * 40503 + 1) % 65536]

AnyStream == [mode |-> "any", s |-> 0]

\* The stream after one more draw.
Adv(r) == IF r.mode = "any" THEN r ELSE [r EXCEPT !.s = (25173 * r.s + 13849) % 65536]

RECURSIVE AdvN(_, _)
AdvN(r, n) == IF n <= 0 THEN r ELSE AdvN(Adv(r), n - 1)

Out(r) == r.s \div 16

\* rng.randint(lo, hi): the values the next draw of r can return.
randint(r, lo, hi) ==
    IF r.mode = "any" THEN lo..hi
    ELSE IF hi < lo THEN {} ELSE {lo + (Out(r) % (hi - lo + 1))}

\* rng.random() as a percentage: floor(100 * u), u in [0, 1).
random(r) == IF r.mode = "any" THEN 0..99 ELSE {Out(r) % 100}

\* rng.random() < pct/100
chance(r, pct) == IF r.mode = "any" THEN BOOLEAN ELSE {(Out(r) % 100) < pct}

\* rng.choice(seq)
choice(r, seq) == {seq[k] : k \in randint(r, 1, Len(seq))}

\* A counted loop runs n times; under the "any" stream the model follows the
\* first `bound` iterations only.
Cap(r, n, bound) == IF r.mode = "any" THEN Min2(n, bound) ELSE n

---------------------------------------------------------------------------
(* Colours and pixels on the observed channels *)

ObsRGB == obsCh \cap {1, 2, 3}

\* An RGB triple of the code, on the observed colour channels.
Col(rgb) == [c \in ObsRGB |-> rgb[c]]

\* (*color, alpha): the pixel written for a colour.
Px(col, alpha) == [c \in obsCh |-> IF c = 4 THEN alpha ELSE col[c]]

\* The functions that take each c to a member of S[c].
Prod(S) ==
    {f \in [DOMAIN S -> UNION {S[c] : c \in DOMAIN S}] : \A c \in DOMAIN S : f[c] \in S[c]}

\* jitter without its clamp
jitterNoClamp(color, amount, r) ==
    Prod([c \in DOMAIN color |->
            {color[c] + d : d \in randint(AdvN(r, c - 1), -amount, amount)}])

\* jitter(color, amount, rng): one draw per channel, in channel order.
jitter(color, amount, r) ==
    Prod([c \in DOMAIN color |->
            {clamp(color[c] + d, 0, 255) : d \in randint(AdvN(r, c - 1), -amount, amount)}])

\* [clamp(c + sign * rng.randint(8, 20)) for c in color]
fleck(color, sign, r) ==
    Prod([c \in DOMAIN color |->
            {clamp(color[c] + sign * d, 0, 255) : d \in randint(AdvN(r, c - 1), 8, 20)}])

---------------------------------------------------------------------------
(* The canvas *)

\* Image.new("RGBA", (SIZE, SIZE), fill) on the observed coordinates.
NewImage(obsPx, fill) == [p \in obsPx |-> [c \in obsCh |-> fill[c]]]

NewHist(obsPx) == [p \in obsPx |-> [by |-> {}, last |-> "new", val |-> <<>>]]

W(wx, wy, px, by) == [x |-> wx, y |-> wy, px |-> px, by |-> by]

\* A write that composites over the pixel instead of replacing it.
putBlend(im, w) ==
    IF <<w.x, w.y>> \in DOMAIN im
    THEN [im EXCEPT ![<<w.x, w.y>>] = [c \in DOMAIN @ |-> (@[c] + w.px[c]) \div 2]]
    ELSE im

\* px[x, y] = value
put(im, w) ==
    IF <<w.x, w.y>> \in DOMAIN im THEN [im EXCEPT ![<<w.x, w.y>>] = w.px] ELSE im

note(h, w) ==
    IF <<w.x, w.y>> \in DOMAIN h
    THEN [h EXCEPT ![<<w.x, w.y>>] =
            [by |-> @.by \cup {w.by}, last |-> w.by, val |-> w.px]]
    ELSE h

RECURSIVE putAll(_, _)
putAll(im, ws) == IF ws = <<>> THEN im ELSE putAll(put(im, Head(ws)), Tail(ws))

RECURSIVE noteAll(_, _)
noteAll(h, ws) == IF ws = <<>> THEN h ELSE noteAll(note(h, Head(ws)), Tail(ws))

\* The step performs the writes ws, in order.
Write(ws) ==
    /\ writes' = ws
    /\ img' = putAll(img, ws)
    /\ hist' = noteAll(hist, ws)

NoWrite ==
    /\ writes' = <<>>
    /\ UNCHANGED <<img, hist>>

---------------------------------------------------------------------------
(* The catalog of main(): arguments of the recipes *)

\* make_ore_texture's arguments in main(), then two stress palettes that
\* put the base colour at the ends of the channel range, the second one
\* with a negative crack_count.
OreArgs ==
    << [base |-> <<98, 98, 100>>, ore_dark |-> <<14, 14, 15>>, ore_mid |-> <<28, 29, 31>>,
        ore_light |-> <<52, 54, 56>>, crack_count |-> 3],
       [base |-> <<101, 103, 106>>, ore_dark |-> <<112, 65, 37>>, ore_mid |-> <<153, 89, 49>>,
        ore_light |-> <<198, 127, 72>>, crack_count |-> 4],
       [base |-> <<101, 103, 106>>, ore_dark |-> <<132, 106, 27>>, ore_mid |-> <<177, 146, 38>>,
        ore_light |-> <<227, 196, 84>>, crack_count |-> 4],
       [base |-> <<99, 102, 105>>, ore_dark |-> <<62, 135, 145>>, ore_mid |-> <<88, 178, 190>>,
        ore_light |-> <<159, 229, 235>>, crack_count |-> 3],
       [base |-> <<250, 128, 5>>, ore_dark |-> <<0, 0, 0>>, ore_mid |-> <<128, 128, 128>>,
        ore_light |-> <<255, 255, 255>>, crack_count |-> 1],
       [base |-> <<5, 250, 128>>, ore_dark |-> <<255, 0, 255>>, ore_mid |-> <<1, 2, 3>>,
        ore_light |-> <<0, 255, 0>>, crack_count |-> -1] >>

Recipes == {"ore", "clay", "rubble", "grass", "flower"}

Pal == OreArgs[args.pal]

\* stone_base's keyword arguments at its two call sites (percentages).
StoneArgs ==
    IF recipe = "ore"
    THEN [base |-> Pal.base, variation |-> 11, dark |-> 12, light |-> 8]
    ELSE [base |-> <<104, 110, 106>>, variation |-> 14, dark |-> 15, light |-> 10]

Opaque == <<0, 0, 0, 255>>
Transparent == <<0, 0, 0, 0>>

\* The first statement of each recipe after the stream and canvas are made.
Entry(rcp) ==
    CASE rcp = "ore" -> "stone_base"
      [] rcp = "rubble" -> "stone_base"
      [] rcp = "clay" -> "clay"
      [] rcp = "grass" -> "grass"
      [] rcp = "flower" -> "flower"

\* every canvas allocated opaque
FillOpaque(rcp) == Opaque

\* Image.new("RGBA", (SIZE, SIZE), (0, 0, 0, 255)), or (0, 0, 0, 0) for the sprites
Fill(rcp) == IF rcp \in {"grass", "flower"} THEN Transparent ELSE Opaque

---------------------------------------------------------------------------
(* Row-major scan used by stone_base and clay_deposit_texture *)

LastPixel == x = SIZE - 1 /\ y = SIZE - 1

ScanNext ==
    /\ x' = IF x = SIZE - 1 THEN 0 ELSE x + 1
    /\ y' = IF x = SIZE - 1 THEN y + 1 ELSE y

Locals0 ==
    /\ i' = 0 /\ x' = 0 /\ y' = 0 /\ cx' = 0 /\ cy' = 0
    /\ shape' = 0 /\ length' = 0 /\ step' = 0

---------------------------------------------------------------------------
(* stone_base *)

\* for y in range(SIZE): the rows stone_base scans.
StoneRows == Cap(rng, SIZE, MaxIter)

\* px[x, y] = (*color, 255), then on to the next pixel or out of the loops.
StoneStore(color, r) ==
    /\ Write(<<W(x, y, Px(color, 255), "stone_base")>>)
    /\ rng' = r
    /\ IF x = SIZE - 1 /\ y = StoneRows - 1
       THEN /\ pc' = IF recipe = "ore" THEN "cracks" ELSE "seams"
            /\ Locals0
       ELSE /\ ScanNext
            /\ UNCHANGED <<pc, i, cx, cy, shape, length, step>>

\* The body of stone_base's loops up to the store: the colours it can arrive
\* at, each with the number of draws taken on the way.
\*     color = list(jitter(base, variation, rng))             3 draws
\*     if rng.random() < dark_fleck_rate:                     1 draw
\*         color = [clamp(c - rng.randint(8, 20)) ...]        3 draws
\*     elif rng.random() < light_fleck_rate:                  1 draw
\*         color = [clamp(c + rng.randint(8, 20)) ...]        3 draws
stoneColor(a, r) ==
    LET J == jitter(Col(a.base), a.variation, r)
        D == chance(AdvN(r, 3), a.dark)
        L == chance(AdvN(r, 4), a.light)
    IN  (IF TRUE \in D
         THEN {<<c, 7>> : c \in UNION {fleck(j, -1, AdvN(r, 4)) : j \in J}} ELSE {})
        \cup
        (IF FALSE \in D /\ TRUE \in L
         THEN {<<c, 8>> : c \in UNION {fleck(j, 1, AdvN(r, 5)) : j \in J}} ELSE {})
        \cup
        (IF FALSE \in D /\ FALSE \in L THEN {<<c, 5>> : c \in J} ELSE {})

StonePixel ==
    /\ pc = "stone_base"
    /\ \E o \in stoneColor(StoneArgs, rng) : StoneStore(o[1], AdvN(rng, o[2]))
    /\ UNCHANGED <<recipe, args, obsCh, line, seam_lines, blades, err, run, first, others>>

---------------------------------------------------------------------------
(* add_cracks *)

CrackDark == <<26, 28, 31>>
CrackLight == <<60, 62, 66>>

\* for _ in range(count)
CrackCount == Cap(rng, Pal.crack_count, MaxIter)

\* x = rng.randint(2, SIZE - 3); y = rng.randint(1, SIZE - 2); length = rng.randint(5, 10)
CrackStart ==
    /\ pc = "cracks"
    /\ i < CrackCount
    /\ \E sx \in randint(rng, 2, SIZE - 3) :
       \E sy \in randint(Adv(rng), 1, SIZE - 2) :
       \E len \in randint(AdvN(rng, 2), 5, 10) :
          /\ x' = sx /\ y' = sy /\ length' = len
    /\ rng' = AdvN(rng, 3)
    /\ step' = 0
    /\ pc' = "crack_write"
    /\ NoWrite
    /\ UNCHANGED <<recipe, args, obsCh, i, cx, cy, shape, line, seam_lines, blades, err, run, first, others>>

\* if 0 <= x < SIZE and 0 <= y < SIZE: px[x, y] = dark; maybe px[x + 1, y] = light
CrackWrite ==
    /\ pc = "crack_write"
    /\ IF 0 <= x /\ x < SIZE /\ 0 <= y /\ y < SIZE
       THEN IF x + 1 < SIZE
            THEN \E hl \in chance(rng, 25) :
                    /\ Write(<<W(x, y, Px(Col(CrackDark), 255), "crack")>>
                             \o (IF hl THEN <<W(x + 1, y, Px(Col(CrackLight), 255), "crack")>>
                                 ELSE <<>>))
                    /\ rng' = Adv(rng)
            ELSE /\ Write(<<W(x, y, Px(Col(CrackDark), 255), "crack")>>)
                 /\ rng' = rng
       ELSE /\ NoWrite
            /\ rng' = rng
    /\ pc' = "crack_move"
    /\ UNCHANGED <<recipe, args, obsCh, i, x, y, cx, cy, shape, length, step,
                   line, seam_lines, blades, err, run, first, others>>

\* the walk's move without its clamp
crackMoveUnclamped(v, d) == v + d

\* x += rng.choice([-1, 0, 1]); x = clamp(x, 0, SIZE - 1)   (and y likewise)
crackMove(v, d) == clamp(v + d, 0, SIZE - 1)

CrackMove ==
    /\ pc = "crack_move"
    /\ \E dx \in choice(rng, <<-1, 0, 1>>) :
       \E dy \in choice(Adv(rng), <<0, 1>>) :
          /\ x' = crackMove(x, dx)
          /\ y' = crackMove(y, dy)
    /\ rng' = AdvN(rng, 2)
    /\ step' = step + 1
    /\ IF step + 1 < length
       THEN pc' = "crack_write" /\ i' = i
       ELSE pc' = "cracks" /\ i' = i + 1
    /\ NoWrite
    /\ UNCHANGED <<recipe, args, obsCh, cx, cy, shape, length, line, seam_lines, blades, err, run, first, others>>

\* add_cracks returns; make_ore_texture goes on to add_ore_speckles.
CracksDone ==
    /\ pc = "cracks"
    /\ i >= CrackCount
    /\ pc' = "speckles"
    /\ Locals0
    /\ NoWrite
    /\ UNCHANGED <<recipe, args, rng, obsCh, line, seam_lines, blades, err, run, first, others>>

---------------------------------------------------------------------------
(* add_ore_speckles *)

Shapes ==
    << <<<<0, 0>>>>,
       <<<<0, 0>>, <<1, 0>>>>,
       <<<<0, 0>>, <<0, 1>>>>,
       <<<<0, 0>>, <<1, 0>>, <<0, 1>>>>,
       <<<<0, 0>>, <<-1, 0>>, <<0, 1>>>> >>

\* make_ore_texture passes cluster_count=22
ClusterCount == Cap(rng, 22, MaxIter)

\* cx = rng.randint(1, SIZE - 2); cy = rng.randint(1, SIZE - 2); shape = rng.choice([...])
SpeckleStart ==
    /\ pc = "speckles"
    /\ i < ClusterCount
    /\ \E ax \in randint(rng, 1, SIZE - 2) :
       \E ay \in randint(Adv(rng), 1, SIZE - 2) :
       \E sh \in randint(AdvN(rng, 2), 1, Len(Shapes)) :
          /\ cx' = ax /\ cy' = ay /\ shape' = sh
    /\ rng' = AdvN(rng, 3)
    /\ step' = 1
    /\ pc' = "speckle_offset"
    /\ NoWrite
    /\ UNCHANGED <<recipe, args, obsCh, i, x, y, length, line, seam_lines, blades, err, run, first, others>>

\* if pick < 0.20: ore_dark  elif pick < 0.80: ore_mid  else: ore_light
oreTier(pick) ==
    IF pick < 20 THEN Pal.ore_dark ELSE IF pick < 80 THEN Pal.ore_mid ELSE Pal.ore_light

\* The colours `pick = rng.random()` can select.
oreColor(r) == {oreTier(pick) : pick \in random(r)}

\* The body of `for ox, oy in shape`, for the offset number `step`.
SpeckleOffset ==
    /\ pc = "speckle_offset"
    /\ LET off == Shapes[shape][step]
           px == clamp(cx + off[1], 0, SIZE - 1)
           py == clamp(cy + off[2], 0, SIZE - 1)
           inR == px + 1 < SIZE
           inB == py + 1 < SIZE
           r1 == Adv(rng)
           r2 == IF inR THEN Adv(r1) ELSE r1
           r3 == IF inB THEN Adv(r2) ELSE r2
       IN  \E color \in oreColor(rng) :
           \E right \in (IF inR THEN chance(r1, 35) ELSE {FALSE}) :
           \E below \in (IF inB THEN chance(r2, 30) ELSE {FALSE}) :
              /\ Write(<<W(px, py, Px(Col(color), 255), "ore")>>
                       \o (IF right THEN <<W(px + 1, py, Px(Col(Pal.ore_light), 255), "ore")>>
                           ELSE <<>>)
                       \o (IF below THEN <<W(px, py + 1, Px(Col(Pal.ore_dark), 255), "ore")>>
                           ELSE <<>>))
              /\ rng' = r3
    /\ IF step < Len(Shapes[shape])
       THEN /\ step' = step + 1
            /\ UNCHANGED <<pc, i, cx, cy, shape>>
       ELSE /\ step' = 0 /\ cx' = 0 /\ cy' = 0 /\ shape' = 0
            /\ i' = i + 1
            /\ pc' = "speckles"
    /\ UNCHANGED <<recipe, args, obsCh, x, y, length, line, seam_lines, blades, err, run, first, others>>

\* add_ore_speckles returns, and make_ore_texture returns img.
SpecklesDone ==
    /\ pc = "speckles"
    /\ i >= ClusterCount
    /\ pc' = "done"
    /\ Locals0
    /\ NoWrite
    /\ UNCHANGED <<recipe, args, rng, obsCh, line, seam_lines, blades, err, run, first, others>>

---------------------------------------------------------------------------
(* clay_deposit_texture *)

ClayA == <<152, 144, 134>>
ClayB == <<166, 156, 146>>

\* (clamp(r + stripe + noise + drift), clamp(g + stripe + noise // 2),
\*  clamp(b + stripe + noise // 3), 255)
clayPixel(rowBase, stripe, noise, drift) ==
    [c \in obsCh |->
        CASE c = 1 -> clamp(rowBase[1] + stripe + noise + drift, 0, 255)
          [] c = 2 -> clamp(rowBase[2] + stripe + (noise \div 2), 0, 255)
          [] c = 3 -> clamp(rowBase[3] + stripe + (noise \div 3), 0, 255)
          [] c = 4 -> 255]

\* t = y / (SIZE - 1); row_base = blend(base_a, base_b, t * 0.35): t * 0.35 = 7y/300
ClayPixel ==
    /\ pc = "clay"
    /\ LET rowBase == blend(ClayA, ClayB, 7 * y, 20 * (SIZE - 1))
           stripe == IF y % 4 \in {1, 2} THEN -7 ELSE 5
           drift == ((x + y) % 5) - 2
       IN  \E noise \in randint(rng, -5, 5) :
              Write(<<W(x, y, clayPixel(rowBase, stripe, noise, drift), "clay")>>)
    /\ rng' = Adv(rng)
    /\ IF LastPixel
       THEN pc' = "done" /\ Locals0
       ELSE ScanNext /\ UNCHANGED <<pc, i, cx, cy, shape, length, step>>
    /\ UNCHANGED <<recipe, args, obsCh, line, seam_lines, blades, err, run, first, others>>

---------------------------------------------------------------------------
(* mossy_rubble_texture, after its stone_base *)

SeamDark == <<47, 51, 49>>
SeamLight == <<124, 129, 124>>
SeamMid == <<87, 93, 88>>

\* for _ in range(5).  The generated lines are all kept until they are
\* painted, so under the "any" stream the model follows one line.
SeamCount == Cap(rng, 5, Min2(MaxIter, 1))

\* x = rng.randint(1, SIZE - 2); y = rng.randint(0, SIZE - 1); line = []
\* for _step in range(rng.randint(10, 18))
SeamStart ==
    /\ pc = "seams"
    /\ i < SeamCount
    /\ \E sx \in randint(rng, 1, SIZE - 2) :
       \E sy \in randint(Adv(rng), 0, SIZE - 1) :
       \E len \in randint(AdvN(rng, 2), 10, 18) :
          /\ x' = sx /\ y' = sy /\ length' = Cap(rng, len, MaxSeamSteps)
    /\ rng' = AdvN(rng, 3)
    /\ line' = <<>>
    /\ step' = 0
    /\ pc' = "seam_walk"
    /\ NoWrite
    /\ UNCHANGED <<recipe, args, obsCh, i, cx, cy, shape, seam_lines, blades,
                   err, run, first, others>>

\* clamp(x + rng.choice([-1, 0, 1]), 0, SIZE - 1)
seamMove(v, d) == clamp(v + d, 0, SIZE - 1)

\* line.append((x, y)); move x; move y.  After the last step: seam_lines.append(line)
SeamWalk ==
    /\ pc = "seam_walk"
    /\ \E dx \in choice(rng, <<-1, 0, 1>>) :
       \E dy \in choice(Adv(rng), <<-1, 0, 1>>) :
          IF step + 1 < length
          THEN /\ x' = seamMove(x, dx)
               /\ y' = seamMove(y, dy)
               /\ line' = Append(line, <<x, y>>)
               /\ step' = step + 1
               /\ UNCHANGED <<pc, i, seam_lines, length>>
          ELSE /\ seam_lines' = Append(seam_lines, Append(line, <<x, y>>))
               /\ line' = <<>>
               /\ x' = 0 /\ y' = 0 /\ step' = 0 /\ length' = 0
               /\ i' = i + 1
               /\ pc' = "seams"
    /\ rng' = AdvN(rng, 2)
    /\ NoWrite
    /\ UNCHANGED <<recipe, args, obsCh, cx, cy, shape, blades, err, run, first, others>>

\* The generating loop is over; `for line in seam_lines` starts.
SeamsGenerated ==
    /\ pc = "seams"
    /\ i >= SeamCount
    /\ pc' = "seam_paint"
    /\ i' = 1 /\ step' = 1
    /\ NoWrite
    /\ UNCHANGED <<recipe, args, rng, obsCh, x, y, cx, cy, shape, length, line,
                   seam_lines, blades, err, run, first, others>>

\* for x, y in line: px[x, y] = seam; maybe px[x + 1, y]; maybe px[x, y + 1]
SeamPaint ==
    /\ pc = "seam_paint"
    /\ i <= Len(seam_lines)
    /\ LET pt == seam_lines[i][step]
           sx == pt[1]
           sy == pt[2]
           inR == sx + 1 < SIZE
           inB == sy + 1 < SIZE
           r1 == IF inR THEN Adv(rng) ELSE rng
           r2 == IF inB THEN Adv(r1) ELSE r1
       IN  \E right \in (IF inR THEN chance(rng, 40) ELSE {FALSE}) :
           \E below \in (IF inB THEN chance(r1, 30) ELSE {FALSE}) :
              /\ Write(<<W(sx, sy, Px(Col(SeamDark), 255), "seam")>>
                       \o (IF right THEN <<W(sx + 1, sy, Px(Col(SeamLight), 255), "seam")>>
                           ELSE <<>>)
                       \o (IF below THEN <<W(sx, sy + 1, Px(Col(SeamMid), 255), "seam")>>
                           ELSE <<>>))
              /\ rng' = r2
    /\ IF step < Len(seam_lines[i])
       THEN step' = step + 1 /\ i' = i
       ELSE step' = 1 /\ i' = i + 1
    /\ UNCHANGED <<recipe, args, obsCh, pc, x, y, cx, cy, shape, length, line,
                   seam_lines, blades, err, run, first, others>>

\* All lines are painted; seam_lines is not read again.
SeamsPainted ==
    /\ pc = "seam_paint"
    /\ i > Len(seam_lines)
    /\ pc' = "moss"
    /\ seam_lines' = <<>>
    /\ Locals0
    /\ NoWrite
    /\ UNCHANGED <<recipe, args, rng, obsCh, line, blades, err, run, first, others>>

MossColors == <<<<65, 102, 55>>, <<78, 121, 64>>, <<92, 136, 74>>>>
MossDark == <<49, 81, 43>>

\* for _ in range(7)
MossCount == Cap(rng, 7, MaxIter)

\* cx = rng.randint(1, SIZE - 2); cy = rng.randint(1, SIZE - 2)
MossStart ==
    /\ pc = "moss"
    /\ i < MossCount
    /\ \E ax \in randint(rng, 1, SIZE - 2) :
       \E ay \in randint(Adv(rng), 1, SIZE - 2) :
          cx' = ax /\ cy' = ay
    /\ rng' = AdvN(rng, 2)
    /\ step' = 1
    /\ pc' = "moss_point"
    /\ NoWrite
    /\ UNCHANGED <<recipe, args, obsCh, i, x, y, shape, length, line, seam_lines,
                   blades, err, run, first, others>>

\* points = [(cx, cy), (cx + 1, cy), (cx, cy + 1), (cx - 1, cy), (cx, cy - 1)]
MossPoints(ax, ay) ==
    <<<<ax, ay>>, <<ax + 1, ay>>, <<ax, ay + 1>>, <<ax - 1, ay>>, <<ax, ay - 1>>>>

\* if 0 <= x < SIZE and 0 <= y < SIZE and rng.random() < 0.75:
\*     px[x, y] = (*rng.choice(moss_colors), 255)
\*     if y + 1 < SIZE and rng.random() < 0.35: px[x, y + 1] = dark moss
MossPoint ==
    /\ pc = "moss_point"
    /\ LET pt == MossPoints(cx, cy)[step]
           mx == pt[1]
           my == pt[2]
           inside == 0 <= mx /\ mx < SIZE /\ 0 <= my /\ my < SIZE
           inB == my + 1 < SIZE
       IN  IF inside
           THEN \E stamp \in chance(rng, 75) :
                   IF stamp
                   THEN \E color \in choice(Adv(rng), MossColors) :
                        \E below \in (IF inB THEN chance(AdvN(rng, 2), 35) ELSE {FALSE}) :
                           /\ Write(<<W(mx, my, Px(Col(color), 255), "moss")>>
                                    \o (IF below
                                        THEN <<W(mx, my + 1, Px(Col(MossDark), 255), "moss")>>
                                        ELSE <<>>))
                           /\ rng' = IF inB THEN AdvN(rng, 3) ELSE AdvN(rng, 2)
                   ELSE NoWrite /\ rng' = Adv(rng)
           ELSE NoWrite /\ rng' = rng
    /\ IF step < 5
       THEN /\ step' = step + 1
            /\ UNCHANGED <<pc, i, cx, cy>>
       ELSE /\ step' = 0 /\ cx' = 0 /\ cy' = 0
            /\ i' = i + 1
            /\ pc' = "moss"
    /\ UNCHANGED <<recipe, args, obsCh, x, y, shape, length, line, seam_lines,
                   blades, err, run, first, others>>

\* mossy_rubble_texture returns img.
MossDone ==
    /\ pc = "moss"
    /\ i >= MossCount
    /\ pc' = "done"
    /\ Locals0
    /\ NoWrite
    /\ UNCHANGED <<recipe, args, rng, obsCh, line, seam_lines, blades, err, run,
                   first, others>>

---------------------------------------------------------------------------
(* tall_grass_texture *)

BladeDark == <<58, 112, 44>>
BladeTip == <<136, 186, 79>>
SideDark == <<48, 96, 38>>
SideTip == <<118, 170, 73>>

\* blades = rng.randint(6, 8)
GrassStart ==
    /\ pc = "grass"
    /\ \E n \in randint(rng, 6, 8) : blades' = Cap(rng, n, MaxIter)
    /\ rng' = Adv(rng)
    /\ pc' = "blades"
    /\ NoWrite
    /\ UNCHANGED <<recipe, args, obsCh, i, x, y, cx, cy, shape, length, step, line,
                   seam_lines, err, run, first, others>>

\* x = rng.randint(1, SIZE - 2); height = rng.randint(6, 12); lean = rng.choice([-1, 0, 1])
BladeStart ==
    /\ pc = "blades"
    /\ i < blades
    /\ \E bx \in randint(rng, 1, SIZE - 2) :
       \E height \in randint(Adv(rng), 6, 12) :
       \E lean \in choice(AdvN(rng, 2), <<-1, 0, 1>>) :
          x' = bx /\ length' = height /\ shape' = lean
    /\ rng' = AdvN(rng, 3)
    /\ step' = 0
    /\ pc' = "blade_pixel"
    /\ NoWrite
    /\ UNCHANGED <<recipe, args, obsCh, i, y, cx, cy, line, seam_lines, blades,
                   err, run, first, others>>

\* y = base_y - i, base_y = SIZE - 1
bladeRow(k) == (SIZE - 1) - k

\* the blade's column without its clamp
bladeColumnUnclamped(bx, k, lean) == bx + (k \div 3) * lean

\* bx = clamp(x + (i // 3) * lean, 0, SIZE - 1)
bladeColumn(bx, k, lean) == clamp(bx + (k \div 3) * lean, 0, SIZE - 1)

\* The body of `for i in range(height)`; shade_t = i / max(1, height - 1)
BladePixel ==
    /\ pc = "blade_pixel"
    /\ LET by == bladeRow(step)
           bx == bladeColumn(x, step, shape)
           den == Max2(1, length - 1)
           color == blend(Col(BladeDark), Col(BladeTip), step, den)
           side == blend(Col(SideDark), Col(SideTip), step, den)
       IN  \E hl \in chance(rng, 20) :
              Write(<<W(bx, by, Px(color, 255), "blade")>>
                    \o (IF hl /\ bx + 1 < SIZE
                        THEN <<W(bx + 1, by, Px(side, 255), "blade")>>
                        ELSE <<>>))
    /\ rng' = Adv(rng)
    /\ IF step + 1 < length
       THEN /\ step' = step + 1
            /\ UNCHANGED <<pc, i, x, shape, length>>
       ELSE /\ step' = 0 /\ x' = 0 /\ shape' = 0 /\ length' = 0
            /\ i' = i + 1
            /\ pc' = "blades"
    /\ UNCHANGED <<recipe, args, obsCh, y, cx, cy, line, seam_lines, blades,
                   err, run, first, others>>

\* tall_grass_texture returns img.
GrassDone ==
    /\ pc = "blades"
    /\ i >= blades
    /\ pc' = "done"
    /\ blades' = 0
    /\ Locals0
    /\ NoWrite
    /\ UNCHANGED <<recipe, args, rng, obsCh, line, seam_lines, err, run, first, others>>

---------------------------------------------------------------------------
(* wildflower_texture *)

StemDark == <<44, 104, 41>>
StemLight == <<98, 156, 72>>
LeafColor == <<76, 142, 63>>
LeafShade == <<64, 128, 56>>
CenterColor == <<242, 215, 106>>
PetalPalette == <<<<212, 70, 70>>, <<241, 206, 82>>, <<226, 125, 171>>>>
PetalOffsets == <<<<-1, 0>>, <<1, 0>>, <<0, -1>>, <<0, 1>>, <<-1, -1>>, <<1, -1>>>>

\* stem_x = rng.randint(7, 8); stem_top = rng.randint(5, 7)
FlowerStart ==
    /\ pc = "flower"
    /\ \E stem_x \in randint(rng, 7, 8) :
       \E stem_top \in randint(Adv(rng), 5, 7) :
          cx' = stem_x /\ cy' = stem_top
    /\ rng' = AdvN(rng, 2)
    /\ y' = SIZE - 1
    /\ pc' = "stem"
    /\ NoWrite
    /\ UNCHANGED <<recipe, args, obsCh, i, x, shape, length, step, line, seam_lines,
                   blades, err, run, first, others>>

\* for y in range(SIZE - 1, stem_top - 1, -1):
\*     x = stem_x + (1 if (y % 4 == 0 and rng.random() < 0.4) else 0)
\*     color = blend(dark, light, (SIZE - 1 - y) / 10.0)
\*     px[clamp(x, 0, SIZE - 1), y] = (*color, 255)
StemPixel ==
    /\ pc = "stem"
    /\ LET draws == y % 4 = 0
           color == blend(Col(StemDark), Col(StemLight), SIZE - 1 - y, 10)
       IN  \E kink \in (IF draws THEN chance(rng, 40) ELSE {FALSE}) :
              /\ Write(<<W(clamp(cx + (IF kink THEN 1 ELSE 0), 0, SIZE - 1), y,
                           Px(color, 255), "stem")>>)
              /\ rng' = IF draws THEN Adv(rng) ELSE rng
    /\ IF y - 1 >= cy
       THEN /\ y' = y - 1
            /\ UNCHANGED <<pc, step>>
       ELSE /\ y' = 0
            /\ step' = 1
            /\ pc' = "leaves"
    /\ UNCHANGED <<recipe, args, obsCh, i, x, cx, cy, shape, length, line, seam_lines,
                   blades, err, run, first, others>>

\* for lx, ly in [(stem_x - 1, 11), (stem_x + 1, 9)]
Leaves(stem_x) == <<<<stem_x - 1, 11>>, <<stem_x + 1, 9>>>>

Leaf ==
    /\ pc = "leaves"
    /\ LET lx == Leaves(cx)[step][1]
           ly == Leaves(cx)[step][2]
           inside == 0 <= lx /\ lx < SIZE /\ 0 <= ly /\ ly < SIZE
           draws == inside /\ lx + 1 < SIZE
       IN  \E hl \in (IF draws THEN chance(rng, 50) ELSE {FALSE}) :
              /\ IF inside
                 THEN Write(<<W(lx, ly, Px(Col(LeafColor), 255), "leaf")>>
                            \o (IF hl THEN <<W(lx + 1, ly, Px(Col(LeafShade), 255), "leaf")>>
                                ELSE <<>>))
                 ELSE NoWrite
              /\ rng' = IF draws THEN Adv(rng) ELSE rng
    /\ IF step < 2
       THEN step' = step + 1 /\ pc' = pc
       ELSE step' = 0 /\ pc' = "center"
    /\ UNCHANGED <<recipe, args, obsCh, i, x, y, cx, cy, shape, length, line,
                   seam_lines, blades, err, run, first, others>>

\* center = (stem_x, stem_top); px[center[0], center[1]] = (242, 215, 106, 255)
Center ==
    /\ pc = "center"
    /\ Write(<<W(cx, cy, Px(Col(CenterColor), 255), "center")>>)
    /\ step' = 1
    /\ pc' = "petals"
    /\ UNCHANGED <<recipe, args, rng, obsCh, i, x, y, cx, cy, shape, length, line,
                   seam_lines, blades, err, run, first, others>>

\* for idx, (ox, oy) in enumerate(petal_offsets); the last one returns img.
Petal ==
    /\ pc = "petals"
    /\ LET px == cx + PetalOffsets[step][1]
           py == cy + PetalOffsets[step][2]
           color == PetalPalette[((step - 1) % Len(PetalPalette)) + 1]
       IN  IF 0 <= px /\ px < SIZE /\ 0 <= py /\ py < SIZE
           THEN Write(<<W(px, py, Px(Col(color), 255), "petal")>>)
           ELSE NoWrite
    /\ IF step < Len(PetalOffsets)
       THEN /\ step' = step + 1
            /\ UNCHANGED <<pc, i, x, y, cx, cy, shape, length>>
       ELSE /\ pc' = "done"
            /\ Locals0
    /\ UNCHANGED <<recipe, args, rng, obsCh, line, seam_lines, blades, err, run,
                   first, others>>

---------------------------------------------------------------------------
(* Specifications *)

RecipeIdle ==
    /\ recipe = "none" /\ args = [seed |-> 0, pal |-> 1] /\ pc = "idle"
    /\ rng = AnyStream /\ obsCh = {} /\ img = <<>> /\ hist = <<>> /\ writes = <<>>
    /\ i = 0 /\ x = 0 /\ y = 0 /\ cx = 0 /\ cy = 0
    /\ shape = 0 /\ length = 0 /\ step = 0
    /\ line = <<>> /\ seam_lines = <<>> /\ blades = 0
    /\ err = "none" /\ run = 1 /\ first = <<>>

BlendIdle == c1 = <<>> /\ c2 = <<>> /\ tn = 0 /\ td = 1 /\ out = <<>>

BatchIdle ==
    /\ textures = <<>> /\ files = {} /\ bi = 0 /\ success = 0 /\ failed = 0
    /\ requests = <<>> /\ written = <<>> /\ outcomes = <<>> /\ bpc = "idle"

\* The state of a recipe right after `rng = random.Random(seed)` and the
\* allocation of its canvas.
RecipeInit(rcps, pals, modes, chans, windows) ==
    /\ recipe \in rcps
    /\ \E m \in modes :
          /\ args \in [seed : IF m = "any" THEN {0} ELSE 0..MaxSeed,
                       pal : IF recipe = "ore" THEN pals ELSE {1}]
          /\ run = 1
          /\ rng = IF m = "any" THEN AnyStream ELSE Random(args.seed, 1)
    /\ obsCh \in chans
    /\ \E obsPx \in windows :
          /\ img = NewImage(obsPx, Fill(recipe))
          /\ hist = NewHist(obsPx)
    /\ pc = Entry(recipe)
    /\ writes = <<>>
    /\ i = 0 /\ x = 0 /\ y = 0 /\ cx = 0 /\ cy = 0
    /\ shape = 0 /\ length = 0 /\ step = 0
    /\ line = <<>> /\ seam_lines = <<>> /\ blades = 0
    /\ err = "none"
    /\ first = <<>>
    /\ BlendIdle
    /\ BatchIdle

RecipeNext ==
    \/ StonePixel
    \/ CrackStart
    \/ CrackWrite
    \/ CrackMove
    \/ CracksDone
    \/ SpeckleStart
    \/ SpeckleOffset
    \/ SpecklesDone
    \/ ClayPixel
    \/ SeamStart
    \/ SeamWalk
    \/ SeamsGenerated
    \/ SeamPaint
    \/ SeamsPainted
    \/ MossStart
    \/ MossPoint
    \/ MossDone
    \/ GrassStart
    \/ BladeStart
    \/ BladePixel
    \/ GrassDone
    \/ FlowerStart
    \/ StemPixel
    \/ Leaf
    \/ Center
    \/ Petal

\* The same recipe is called again with the same arguments: a new stream
\* from the same seed, a new canvas.
Reinvoke ==
    /\ pc = "done"
    /\ run = 1
    /\ rng.mode = "lcg"
    /\ first' = [img |-> img, rng |-> rng]
    /\ run' = 2
    /\ rng' = Random(args.seed, 2)
    /\ img' = NewImage(DOMAIN img, Fill(recipe))
    /\ hist' = NewHist(DOMAIN img)
    /\ pc' = Entry(recipe)
    /\ writes' = <<>>
    /\ UNCHANGED <<recipe, args, obsCh, i, x, y, cx, cy, shape, length, step, line,
                   seam_lines, blades, err, others>>

\* Every recipe under the stream that may return anything, one observed
\* channel at a time, no pixel kept: what is checked is the log of writes.
Init ==
    RecipeInit(Recipes, {1, 6}, {"any"}, {{1}, {2}, {3}, {4}}, {{}})

Spec == Init /\ [][RecipeNext]_vars

\* Every recipe under seeded streams, the whole canvas kept, called twice.
InitSeeded ==
    RecipeInit(Recipes, 1..Len(OreArgs), {"lcg"}, {{1, 2, 3, 4}}, {Coords})

NextSeeded == RecipeNext \/ Reinvoke

SpecSeeded == InitSeeded /\ [][NextSeeded]_vars

\* The two sprites: under the stream that may return anything with the alpha
\* of one pixel of a diagonal kept, and under seeded streams with the whole
\* canvas kept.
Diagonals ==
    {{<<k, k>>} : k \in 0..(SIZE - 1)} \cup {{<<k, SIZE - 1 - k>>} : k \in 0..(SIZE - 1)}

InitSprite ==
    \/ RecipeInit({"grass", "flower"}, {1}, {"any"}, {{4}}, Diagonals)
    \/ RecipeInit({"grass", "flower"}, {1}, {"lcg"}, {{1, 2, 3, 4}}, {Coords})

NextSprite ==
    \/ GrassStart
    \/ BladeStart
    \/ BladePixel
    \/ GrassDone
    \/ FlowerStart
    \/ StemPixel
    \/ Leaf
    \/ Center
    \/ Petal

SpecSprite == InitSprite /\ [][NextSprite]_vars

---------------------------------------------------------------------------
(* blend as a pure function: arguments drawn, then one call *)

\* Channel values given to blend: inside [0,255], at its ends, and outside.
ChannelSamples == {-1, 0, 200, 256}

ColorSamples == ChannelSamples \X ChannelSamples \X ChannelSamples

\* t as tn/td: 0, 1, a proper fraction and an extrapolating one.
FactorSamples == {<<0, 1>>, <<1, 1>>, <<1, 2>>, <<3, 2>>}

InitBlend ==
    /\ c1 \in ColorSamples
    /\ c2 \in ColorSamples
    /\ \E t \in FactorSamples : tn = t[1] /\ td = t[2]
    /\ out = <<>>
    /\ RecipeIdle
    /\ BatchIdle

\* out = blend(c1, c2, t)
Blend ==
    /\ out = <<>>
    /\ out' = blend(c1, c2, tn, td)
    /\ UNCHANGED <<c1, c2, tn, td, recipeVars, batchVars>>

SpecBlend == InitBlend /\ [][Blend]_vars

---------------------------------------------------------------------------
(* generate_batch.py *)

Names == {"foo", "bar"}

Text == [type |-> "text", source |-> "none", data |-> "text"]
Image == [type |-> "image", source |-> "base64", data |-> "PNG"]
ImageUrl == [type |-> "image", source |-> "url", data |-> "PNG"]
ImageEmpty == [type |-> "image", source |-> "base64", data |-> ""]

\* What requests.post can do: raise one of the three exceptions the client
\* catches (raise_for_status included), or return a JSON body with a list of
\* content blocks.
Responses ==
    {[error |-> e, content |-> <<>>] : e \in {"ConnectionError", "Timeout", "HTTPError"}}
    \cup
    {[error |-> "none", content |-> blocks] :
        blocks \in {<<>>, <<Text>>, <<Text, Image>>, <<Image>>, <<ImageUrl, Text>>, <<ImageEmpty>>}}

\* the first block of the body taken for the image, whatever its type
generate_imageAnyBlock(resp) ==
    IF resp.error # "none" \/ resp.content = <<>> THEN "None" ELSE resp.content[1].data

\* generate_image(prompt), given what the request does: the decoded payload
\* of the first image block with a base64 source, or None.
generate_image(resp) ==
    IF resp.error # "none" THEN "None"
    ELSE LET hits == {k \in 1..Len(resp.content) :
                        /\ resp.content[k].type = "image"
                        /\ resp.content[k].source = "base64"}
         IN  IF hits = {} THEN "None"
             ELSE resp.content[CHOOSE k \in hits : \A j \in hits : k <= j].data

\* `if image_data:` -- None and b"" are both false
truthy(image_data) == image_data # "None" /\ image_data # ""

\* out_path.exists() tested on a listing that is never fresh
existsNever(name) == FALSE

\* out_path.exists()
exists(name) == name \in DOMAIN files

RECURSIVE SeqsUpTo(_, _)
SeqsUpTo(S, n) ==
    IF n = 0 THEN {<<>>}
    ELSE LET shorter == SeqsUpTo(S, n - 1)
         IN  shorter \cup {Append(q, e) : q \in {r \in shorter : Len(r) = n - 1}, e \in S}

\* main() after the configuration is read: the texture list, the files of
\* the output directory, success = failed = 0, the loop at its first entry.
InitBatch ==
    /\ textures \in SeqsUpTo(Names, MaxEntries)
    /\ \E present \in SUBSET Names : files = [n \in present |-> "old"]
    /\ bi = 1
    /\ success = 0
    /\ failed = 0
    /\ requests = <<>>
    /\ written = <<>>
    /\ outcomes = <<>>
    /\ bpc = "loop"
    /\ RecipeIdle
    /\ BlendIdle

\* if out_path.exists(): success += 1; continue
Skip ==
    /\ bpc = "loop"
    /\ bi <= Len(textures)
    /\ exists(textures[bi])
    /\ success' = success + 1
    /\ bi' = bi + 1
    /\ UNCHANGED <<textures, files, failed, requests, written, outcomes, bpc,
                   recipeVars, blendVars>>

\* image_data = generate_image(prompt)
\* if image_data: out_path.write_bytes(image_data); success += 1
\* else: failed += 1
Generate ==
    /\ bpc = "loop"
    /\ bi <= Len(textures)
    /\ ~exists(textures[bi])
    /\ \E resp \in Responses :
          LET image_data == generate_image(resp)
          IN  /\ requests' = Append(requests, bi)
              /\ IF truthy(image_data)
                 THEN /\ files' = [n \in DOMAIN files \cup {textures[bi]} |->
                                      IF n = textures[bi] THEN image_data ELSE files[n]]
                      /\ written' = Append(written, bi)
                      /\ success' = success + 1
                      /\ failed' = failed
                      /\ outcomes' = Append(outcomes, [i |-> bi, resp |-> resp,
                                                       counted |-> "success"])
                 ELSE /\ failed' = failed + 1
                      /\ outcomes' = Append(outcomes, [i |-> bi, resp |-> resp,
                                                       counted |-> "failed"])
                      /\ UNCHANGED <<files, written, success>>
    /\ bi' = bi + 1
    /\ UNCHANGED <<textures, bpc, recipeVars, blendVars>>

\* The loop is over: print(f"Done: {success} success, {failed} failed ...")
Finish ==
    /\ bpc = "loop"
    /\ bi > Len(textures)
    /\ bpc' = "done"
    /\ UNCHANGED <<textures, files, bi, success, failed, requests, written, outcomes,
                   recipeVars, blendVars>>

NextBatch ==
    \/ Skip
    \/ Generate
    \/ Finish

SpecBatch == InitBatch /\ [][NextBatch]_vars

---------------------------------------------------------------------------
(* Claims about the recipes *)

InCanvas(px, py) == 0 <= px /\ px <= SIZE - 1 /\ 0 <= py /\ py <= SIZE - 1

Features == {"crack", "ore", "seam", "moss", "blade", "stem", "leaf", "center", "petal"}

\* C1: every pixel write performed by a feature pass (ore speckles, crack
\* strokes, seam lines, moss patches, grass blades, flower stem, leaves,
\* centre and petals), the conditional right-neighbour and below-neighbour
\* writes included, targets a coordinate (x, y) with 0 <= x <= 15 and
\* 0 <= y <= 15, whatever the random stream returns.
C1_WritesInCanvas ==
    \A k \in 1..Len(writes) :
        writes[k].by \in Features => InCanvas(writes[k].x, writes[k].y)

\* A blade leaning left has been clamped at column 0 and painted there.
C1_Witness ==
    /\ pc = "blade_pixel"
    /\ x + (step \div 3) * shape < -1
    /\ writes # <<>>
    /\ writes[1].by = "blade"
    /\ writes[1].x = 0

\* C2: every channel of every pixel the recipes hold or write lies in [0,255],
\* at every point of the generation and in the final canvas.
C2_ChannelsInRange ==
    /\ \A k \in 1..Len(writes) :
          \A c \in DOMAIN writes[k].px : writes[k].px[c] \in 0..255
    /\ \A p \in DOMAIN img :
          \A c \in DOMAIN img[p] : img[p][c] \in 0..255

\* stone_base has stored a pixel whose observed channel was clamped at 255.
C2_Witness ==
    /\ recipe = "ore"
    /\ writes # <<>>
    /\ writes[1].by = "stone_base"
    /\ \E c \in DOMAIN writes[1].px : c # 4 /\ writes[1].px[c] = 255

\* C3: two invocations of a recipe with the same seed and arguments end with
\* identical canvases, having taken the same draws from their streams.
C3_Deterministic ==
    (run = 2 /\ pc = "done") => (img = first.img /\ rng = first.rng)

\* The second invocation of the ore recipe has returned.
C3_Witness ==
    /\ run = 2
    /\ pc = "done"
    /\ recipe = "ore"
    /\ \E p \in DOMAIN hist : "ore" \in hist[p].by

\* C4: in the final canvas of tall_grass_texture and wildflower_texture, a
\* pixel that no feature pass wrote has alpha 0 and a pixel that a feature
\* pass wrote has alpha 255.
C4_SpriteAlpha ==
    (pc = "done" /\ recipe \in {"grass", "flower"}) =>
        \A p \in DOMAIN img :
            img[p][4] = IF hist[p].by \cap Features = {} THEN 0 ELSE 255

\* A finished sprite with a written and an unwritten pixel.
C4_Witness ==
    /\ pc = "done"
    /\ recipe = "grass"
    /\ \E p, q \in DOMAIN img :
          /\ hist[p].by = {"blade"} /\ img[p][4] = 255
          /\ hist[q].by = {} /\ img[q][4] = 0

OrePixels == {Px(Col(c), 255) : c \in {Pal.ore_dark, Pal.ore_mid, Pal.ore_light}}

\* C5: every coordinate holds the value of the last write issued to it; in
\* make_ore_texture a coordinate written by both a crack stroke and an ore
\* speckle holds an ore colour, the speckles being painted after the cracks.
C5_LastWriteWins ==
    \A p \in DOMAIN img :
        /\ hist[p].by # {} => img[p] = hist[p].val
        /\ (recipe = "ore" /\ {"crack", "ore"} \subseteq hist[p].by) =>
              (hist[p].last = "ore" /\ img[p] \in OrePixels)

\* The ore recipe has returned a canvas where a speckle covers a crack.
C5_Witness ==
    /\ pc = "done"
    /\ recipe = "ore"
    /\ \E p \in DOMAIN img :
          /\ {"crack", "ore"} \subseteq hist[p].by
          /\ img[p] # Px(Col(CrackDark), 255)

\* C8: a negative count is refused: once add_cracks has been called with a
\* negative count, a configuration error has been raised.
C8_NegativeCountRefused ==
    (recipe = "ore" /\ Pal.crack_count < 0 /\ pc \in {"speckles", "speckle_offset", "done"})
        => err # "none"

\* C10: a crack stroke starts at x in [2,13], y in [1,14] with a length in
\* [5,10]; every one of its steps writes the dark crack colour at the current
\* position and then moves x by at most 1 and y by 0 or +1, to a position
\* inside the canvas.
C10_CrackStep ==
    /\ (pc = "cracks" /\ pc' = "crack_write") =>
          (x' \in 2..13 /\ y' \in 1..14 /\ length' \in 5..10 /\ step' = 0)
    /\ pc = "crack_move" =>
          /\ writes # <<>>
          /\ writes[1] = W(x, y, Px(Col(CrackDark), 255), "crack")
          /\ InCanvas(x', y')
          /\ y' - y \in {0, 1}
          /\ x' - x \in {-1, 0, 1}
          /\ step' = step + 1
          /\ step' <= length

C10_CrackWalk == [][C10_CrackStep]_vars

\* The tenth step of a stroke of length 10, in the bottom-left corner.
C10_Witness ==
    /\ pc = "crack_move"
    /\ length = 10
    /\ step = 9
    /\ x = 0
    /\ y = SIZE - 1

---------------------------------------------------------------------------
(* Claims about blend *)

InRange(col) == \A c \in DOMAIN col : col[c] \in 0..255

\* C9 as stated: blend(c1, c2, 0) == c1 and blend(c1, c2, 1) == c2 for
\* arbitrary integer RGB triples.
C9_BlendIdentityAnyTriple ==
    out # <<>> =>
        /\ tn = 0 => out = c1
        /\ tn = td => out = c2

\* C9, amended: blend(c1, c2, 0) == c1 when the channels of c1 lie in
\* [0,255], and blend(c1, c2, 1) == c2 when the channels of c2 lie in [0,255].
C9_BlendIdentity ==
    out # <<>> =>
        /\ (tn = 0 /\ InRange(c1)) => out = c1
        /\ (tn = td /\ InRange(c2)) => out = c2

\* blend was called with t = 1 on two different colours inside the range.
C9_Witness ==
    /\ out # <<>>
    /\ tn = td
    /\ InRange(c1)
    /\ InRange(c2)
    /\ c1 # c2
    /\ out = c2

---------------------------------------------------------------------------
(* Claims about the batch client *)

\* C6: an entry whose <name>.png exists when the loop reaches it causes no
\* request, leaves the files as they are and adds exactly one to the
\* success count.
C6_SkipStep ==
    (bpc = "loop" /\ bi <= Len(textures) /\ textures[bi] \in DOMAIN files) =>
        /\ requests' = requests
        /\ files' = files
        /\ written' = written
        /\ success' = success + 1
        /\ failed' = failed
        /\ bi' = bi + 1

C6_SkipIfExists == [][C6_SkipStep]_vars

\* The first entry's file was there before the run and has been skipped.
C6_Witness ==
    /\ bi = 2
    /\ textures[1] \in DOMAIN files
    /\ files[textures[1]] = "old"
    /\ requests = <<>>
    /\ success = 1

\* The outcomes the claim names: the three caught exceptions, and a
\* successful response with no image block.
Failing(resp) ==
    \/ resp.error \in {"ConnectionError", "Timeout", "HTTPError"}
    \/ \A k \in 1..Len(resp.content) : resp.content[k].type # "image"

=============================================================================
